---- MODULE Spec2Model ----
(***************************************************************************)
(* NetworkController (packages/network-controller/src/NetworkController.ts) *)
(* as a state machine.  One JavaScript task runs at a time: `pc` is the     *)
(* position of the handler that is running ("idle" when none is), and each  *)
(* step of a handler ends at the next state update or notification, which   *)
(* is where subscribers observe the controller.  Tasks suspend only while   *)
(* awaiting the two requests of lookupNetwork or the single request of      *)
(* getEIP1559Compatibility.                                                 *)
(***************************************************************************)
EXTENDS Integers, Sequences, FiniteSets, TLC

\* ------------------------------------------------------------------ bounds
MaxOps == 3
MaxProbes == 2
MaxEipCalls == 1

\* --------------------------------------------------------------- constants
Undef == "undefined"
Unknown == "unknown"
Available == "available"
Unavailable == "unavailable"
Blocked == "blocked"
NetworkStatuses == {Unknown, Available, Unavailable, Blocked}

RpcType == "rpc"
InfuraNetworkType == {"mainnet", "goerli", "sepolia"}

IsInfuraProviderType(type) == type \in InfuraNetworkType

ChainIdOf(type) ==
  CASE type = "mainnet" -> "0x1"
    [] type = "goerli" -> "0x5"
    [] type = "sepolia" -> "0xaa36a7"
    [] OTHER -> Undef

TickerOf(type) ==
  CASE type = "mainnet" -> "ETH"
    [] type = "goerli" -> "GoerliETH"
    [] type = "sepolia" -> "SepoliaETH"
    [] OTHER -> "ETH"

ExplorerOf(type) ==
  CASE type = "mainnet" -> "https://etherscan.io"
    [] type = "goerli" -> "https://goerli.etherscan.io"
    [] type = "sepolia" -> "https://sepolia.etherscan.io"
    [] OTHER -> Undef

Config(type, rpcUrl, chainId, ticker, nickname, rpcPrefs, id) ==
  [type |-> type, rpcUrl |-> rpcUrl, chainId |-> chainId, ticker |-> ticker,
   nickname |-> nickname, rpcPrefs |-> rpcPrefs, id |-> id]

DefaultProviderConfig == Config("mainnet", Undef, "0x1", Undef, Undef, Undef, Undef)

NullId == <<>>
NoEIPS == <<>>

\* ------------------------------------------------- network id conversion
RECURSIVE HexValue(_)
HexValue(ds) ==
  IF ds = <<>> THEN 0
  ELSE 16 * HexValue(SubSeq(ds, 1, Len(ds) - 1)) + ds[Len(ds)]

RECURSIVE DecimalDigits(_)
DecimalDigits(n) ==
  IF n < 10 THEN <<n>> ELSE Append(DecimalDigits(n \div 10), n % 10)

\* A net_version result as the provider hands it over.
RawNetworkIds ==
  { [form |-> "number", n |-> 16],
    [form |-> "hex", digits |-> <<1, 0>>],
    [form |-> "decimal", digits |-> <<0, 5>>],
    [form |-> "text"] }

\* [ok |-> TRUE, id |-> decimal string] or [ok |-> FALSE] when it throws
ConvertNetworkId(value) ==
  CASE value.form = "number" -> [ok |-> TRUE, id |-> DecimalDigits(value.n)]
    [] value.form = "hex" -> [ok |-> TRUE, id |-> DecimalDigits(HexValue(value.digits))]
    [] value.form = "decimal" -> [ok |-> TRUE, id |-> value.digits]
    [] OTHER -> [ok |-> FALSE]

\* ------------------------------------------------------- request errors
\* hasCode: the error object has a `code` property; internal: the code is
\* errorCodes.rpc.internal; blockedBody: error.message is JSON whose `error`
\* is INFURA_BLOCKED_KEY.
Err(hasCode, internal, blockedBody) ==
  [hasCode |-> hasCode, internal |-> internal, blockedBody |-> blockedBody]

BlockedInfuraError == Err(TRUE, TRUE, TRUE)
GenericInternalError == Err(TRUE, TRUE, FALSE)
LimitExceededError == Err(TRUE, FALSE, FALSE)
PlainError == Err(FALSE, FALSE, FALSE)
\* the countryBlocked body under another code, and on an error without a code
BlockedLimitExceededError == Err(TRUE, FALSE, TRUE)
BlockedPlainError == Err(FALSE, FALSE, TRUE)

RequestErrors ==
  {BlockedInfuraError, GenericInternalError, LimitExceededError, PlainError,
   BlockedLimitExceededError, BlockedPlainError}

\* the catch block of lookupNetwork
ClassifyError_BlockedForAll(isInfura, error) ==
  IF error.hasCode
  THEN IF error.blockedBody THEN Blocked
       ELSE IF error.internal THEN Unknown
       ELSE Unavailable
  ELSE Unknown

ClassifyError_InternalUnavailable(isInfura, error) ==
  IF error.hasCode
  THEN IF isInfura /\ error.blockedBody THEN Blocked
       ELSE Unavailable
  ELSE Unknown

ClassifyError(isInfura, error) ==
  IF error.hasCode
  THEN IF isInfura /\ error.blockedBody THEN Blocked
       ELSE IF error.internal THEN Unknown
       ELSE Unavailable
  ELSE Unknown

\* latest block as returned by eth_getBlockByNumber
Blocks == {"post1559", "pre1559", "null"}

IsEIP1559Block_NullCompatible(block) == block # "pre1559"

\* latestBlock?.baseFeePerGas !== undefined
IsEIP1559Block(block) == block = "post1559"


\* ------------------------------------------------------------------ state
VARIABLES
  networkId,              \* state.networkId (NullId when null)
  networkStatus,          \* state.networkStatus
  providerConfig,         \* state.providerConfig
  EIPS,                   \* state.networkDetails.EIPS
  networkConfigurations,  \* state.networkConfigurations
  previousProviderConfig, \* #previousProviderConfig
  ethQuery,               \* #ethQuery is defined
  handles,                \* #providerProxy, #blockTrackerProxy and their targets
  clients,                \* number of createNetworkClient calls made so far
  listeners,              \* probes subscribed to networkDidChange
  probes,                 \* lookupNetwork invocations awaiting their requests
  eipCalls,               \* getEIP1559Compatibility invocations awaiting theirs
  pc,                     \* position of the running handler
  cur,                    \* locals of the running handler
  notif,                  \* notification published by the last step
  log,                    \* effects of the current run of a handler, in order
  pre,                    \* the state when the running switch was invoked
  history,                \* successful switches and rollbacks so far
  opCount                 \* number of operations invoked

stateVars == <<networkId, networkStatus, providerConfig, EIPS, networkConfigurations>>

vars == <<networkId, networkStatus, providerConfig, EIPS, networkConfigurations,
          previousProviderConfig, ethQuery, handles, clients, listeners, probes,
          eipCalls, pc, cur, notif, log, pre, history, opCount>>

ProbeIds == 1..MaxProbes
EipIds == 1..MaxEipCalls

Free == [st |-> "free"]
NoCur == [op |-> "none", isInfura |-> FALSE, status |-> Unknown,
          received |-> [none |-> TRUE], own |-> FALSE, switchBegun |-> FALSE,
          sawDidChange |-> FALSE, newNetworkConfigurationId |-> Undef]
NoPre == [taken |-> FALSE]

Snapshot == [taken |-> TRUE, providerConfig |-> providerConfig,
             networkStatus |-> networkStatus, networkId |-> networkId, EIPS |-> EIPS]

\* persisted registry the controller may be constructed with
InitialNetworkConfigurations ==
  [id \in {"id1", "id2", "id3"} |->
     IF id = "id1"
     THEN [rpcUrl |-> "https://mock-rpc-url", chainId |-> "0x539", ticker |-> "TEST",
           nickname |-> Undef, rpcPrefs |-> Undef, id |-> "id1"]
     ELSE IF id = "id2"
     THEN [rpcUrl |-> Undef, chainId |-> "0xde", ticker |-> "TEST2",
           nickname |-> Undef, rpcPrefs |-> Undef, id |-> "id2"]
     ELSE [rpcUrl |-> "http://somethingexisting.com", chainId |-> Undef,
           ticker |-> "TEST3", nickname |-> Undef, rpcPrefs |-> Undef, id |-> "id3"]]

InitialProviderConfigs ==
  { DefaultProviderConfig,
    Config(RpcType, "https://mock-rpc-url", "0x539", "TEST", Undef, Undef, "id1") }

NoHandles == [providerProxy |-> 0, providerTarget |-> 0,
              blockTrackerProxy |-> 0, blockTrackerTarget |-> 0, created |-> 0]

Init ==
  /\ networkId = NullId
  /\ networkStatus = Unknown
  /\ providerConfig \in InitialProviderConfigs
  /\ EIPS = NoEIPS
  /\ networkConfigurations = InitialNetworkConfigurations
  /\ previousProviderConfig = providerConfig
  /\ ethQuery = FALSE
  /\ handles = NoHandles
  /\ clients = 0
  /\ listeners = {}
  /\ probes = [p \in ProbeIds |-> Free]
  /\ eipCalls = [i \in EipIds |-> Free]
  /\ pc = "idle"
  /\ cur = NoCur
  /\ notif = "none"
  /\ log = <<>>
  /\ pre = NoPre
  /\ history = [switches |-> 0, from |-> providerConfig, rollbacks |-> 0]
  /\ opCount = 0

\* ---------------------------------------------------------------- helpers
FreeProbes == {p \in ProbeIds : probes[p] = Free}
FreeEipCalls == {i \in EipIds : eipCalls[i] = Free}
Min(S) == CHOOSE x \in S : \A y \in S : x <= y

CanInvoke_Reentrant == opCount < MaxOps

\* an operation is invoked only when no handler is running: handlers have no
\* await except those of the requests
CanInvoke == pc = "idle" /\ opCount < MaxOps

ConfigureProvider_NoUrlCheck(type, rpcUrl, chainId) ==
  IF type \in InfuraNetworkType
  THEN [ok |-> TRUE, args |-> [type |-> "infura", network |-> type,
                               rpcUrl |-> Undef, chainId |-> Undef]]
  ELSE IF type = RpcType
  THEN IF chainId = Undef THEN [ok |-> FALSE, error |-> "chainId must be provided"]
       ELSE [ok |-> TRUE, args |-> [type |-> "custom", network |-> Undef,
                                    rpcUrl |-> rpcUrl, chainId |-> chainId]]
  ELSE [ok |-> FALSE, error |-> "Unrecognized network type"]

\* #configureProvider: the arguments of createNetworkClient, or the throw
ConfigureProvider(type, rpcUrl, chainId) ==
  IF type \in InfuraNetworkType
  THEN [ok |-> TRUE, args |-> [type |-> "infura", network |-> type,
                               rpcUrl |-> Undef, chainId |-> Undef]]
  ELSE IF type = RpcType
  THEN IF chainId = Undef THEN [ok |-> FALSE, error |-> "chainId must be provided"]
       ELSE IF rpcUrl = Undef THEN [ok |-> FALSE, error |-> "rpcUrl must be provided"]
       ELSE [ok |-> TRUE, args |-> [type |-> "custom", network |-> Undef,
                                    rpcUrl |-> rpcUrl, chainId |-> chainId]]
  ELSE [ok |-> FALSE, error |-> "Unrecognized network type"]

SetProviderAndBlockTracker_NewProxies(h, k) ==
  [h EXCEPT !.providerProxy = h.created + 1, !.providerTarget = k,
            !.blockTrackerProxy = h.created + 2, !.blockTrackerTarget = k,
            !.created = h.created + 2]

SetProviderAndBlockTracker_ProviderOnly(h, k) ==
  IF h.providerProxy # 0
  THEN [h EXCEPT !.providerTarget = k]
  ELSE [h EXCEPT !.providerProxy = h.created + 1, !.providerTarget = k,
                 !.blockTrackerProxy = h.created + 2, !.blockTrackerTarget = k,
                 !.created = h.created + 2]

\* #setProviderAndBlockTracker for the provider and block tracker of client k
SetProviderAndBlockTracker(h, k) ==
  LET h1 == IF h.providerProxy # 0
            THEN [h EXCEPT !.providerTarget = k]
            ELSE [h EXCEPT !.providerProxy = h.created + 1, !.providerTarget = k,
                           !.created = h.created + 1]
  IN IF h1.blockTrackerProxy # 0
     THEN [h1 EXCEPT !.blockTrackerTarget = k]
     ELSE [h1 EXCEPT !.blockTrackerProxy = h1.created + 1, !.blockTrackerTarget = k,
                     !.created = h1.created + 1]

\* getProviderAndBlockTracker(): the two proxies (0 when undefined)
GetProviderAndBlockTracker ==
  [provider |-> handles.providerProxy, blockTracker |-> handles.blockTrackerProxy]

ResetNetworkState_KeepsEIPS ==
  [networkId |-> NullId, networkStatus |-> Unknown, EIPS |-> EIPS]

ResetNetworkState_KeepsStatus ==
  [networkId |-> NullId, networkStatus |-> networkStatus, EIPS |-> NoEIPS]

ResetNetworkState_KeepsNetworkId ==
  [networkId |-> networkId, networkStatus |-> Unknown, EIPS |-> NoEIPS]

\* the update callback at the top of #refreshNetwork
ResetNetworkState ==
  [networkId |-> NullId, networkStatus |-> Unknown, EIPS |-> NoEIPS]

\* the update callback of setProviderType
ProviderTypeConfig(type) ==
  Config(type, Undef, ChainIdOf(type), TickerOf(type), Undef, ExplorerOf(type), Undef)

ActiveNetworkConfig_NoId(targetNetwork) ==
  Config(RpcType, targetNetwork.rpcUrl, targetNetwork.chainId, targetNetwork.ticker,
         targetNetwork.nickname, targetNetwork.rpcPrefs, Undef)

\* the update callback of setActiveNetwork
ActiveNetworkConfig(targetNetwork) ==
  Config(RpcType, targetNetwork.rpcUrl, targetNetwork.chainId, targetNetwork.ticker,
         targetNetwork.nickname, targetNetwork.rpcPrefs, targetNetwork.id)

RefreshSteps_InstallFirst ==
  <<"configureProvider", "willChange", "resetState", "didChange", "lookupNetwork">>

RefreshSteps_NoDidChange ==
  <<"willChange", "resetState", "configureProvider", "lookupNetwork">>

\* the statements of #refreshNetwork, in program order
RefreshSteps ==
  <<"willChange", "resetState", "configureProvider", "didChange", "lookupNetwork">>

After(steps, s) ==
  LET i == CHOOSE j \in 1..Len(steps) : steps[j] = s
  IN IF i = Len(steps) THEN "idle" ELSE steps[i + 1]

ListenerFired_NoFlag(probe) == probe

\* the networkDidChange listener of lookupNetwork
ListenerFired(probe) == [probe EXCEPT !.networkChanged = TRUE]

\* what publishing networkDidChange does to the probes: the listeners of the
\* subscribed ones run (sawDidChange records the publication itself)
PublishDidChange(ps, subscribed) ==
  [p \in ProbeIds |->
     IF ps[p] = Free THEN Free
     ELSE LET seen == [ps[p] EXCEPT !.sawDidChange = TRUE]
          IN IF p \in subscribed THEN ListenerFired(seen) ELSE seen]

\* a probe in flight learns that a switch began (switchBegun is a history flag)
SwitchBegins(ps) ==
  [p \in ProbeIds |-> IF ps[p] = Free THEN Free ELSE [ps[p] EXCEPT !.switchBegun = TRUE]]

\* a getEIP1559Compatibility call in flight learns that the provider was
\* replaced (providerReplaced and network, the network the request was sent
\* to, are history fields)
ProviderReplaced(cs) ==
  [i \in EipIds |-> IF cs[i] = Free THEN Free ELSE [cs[i] EXCEPT !.providerReplaced = TRUE]]

\* history: how many switches have run to the end of #refreshNetwork (2 stands
\* for two or more), the providerConfig in which the first of them was invoked,
\* and how many rollbacks were invoked since providerConfig was last set by a
\* switch (2 stands for two or more)
SwitchInvoked(h) == [h EXCEPT !.rollbacks = 0]

SwitchSucceeded(h, from) ==
  IF h.switches = 0 THEN [h EXCEPT !.switches = 1, !.from = from]
  ELSE [h EXCEPT !.switches = 2, !.from = DefaultProviderConfig]

RollbackInvoked(h) ==
  [h EXCEPT !.rollbacks = IF h.rollbacks = 0 THEN 1 ELSE 2]

NewProbe_StaleType(own) ==
  [st |-> "awaiting",
   isInfura |-> IsInfuraProviderType(previousProviderConfig.type),
   networkChanged |-> FALSE,
   own |-> own, switchBegun |-> FALSE, sawDidChange |-> FALSE,
   startedWith |-> providerConfig]

\* own, switchBegun, sawDidChange and startedWith are history fields: the probe
\* was started by #refreshNetwork; a switch began, networkDidChange was
\* published, while the probe was in flight; providerConfig when it started
NewProbe(own) ==
  [st |-> "awaiting",
   isInfura |-> IsInfuraProviderType(providerConfig.type),
   networkChanged |-> FALSE,
   own |-> own, switchBegun |-> FALSE, sawDidChange |-> FALSE,
   startedWith |-> providerConfig]

StartLookup_NoGuard(hasQuery, own) ==
  LET p == Min(FreeProbes) IN
  /\ probes' = [probes EXCEPT ![p] = NewProbe(own)]
  /\ listeners' = listeners \cup {p}

\* lookupNetwork up to its first await; hasQuery is #ethQuery at that moment
StartLookup(hasQuery, own) ==
  IF ~hasQuery
  THEN UNCHANGED <<probes, listeners>>
  ELSE LET p == Min(FreeProbes) IN
       /\ probes' = [probes EXCEPT ![p] = NewProbe(own)]
       /\ listeners' = listeners \cup {p}

StartLookupLog(hasQuery) ==
  IF ~hasQuery THEN <<"return:noProvider">>
  ELSE <<"subscribe", "net_version", "eth_getBlockByNumber">>

\* ------------------------------------------------------------- operations
\* initializeProvider()
InitializeProvider ==
  /\ CanInvoke /\ FreeProbes # {}
  /\ opCount' = opCount + 1
  /\ LET conf == ConfigureProvider(providerConfig.type, providerConfig.rpcUrl,
                                   providerConfig.chainId)
     IN IF ~conf.ok
        THEN /\ log' = <<"initializeProvider", conf.error, "throw">>
             /\ UNCHANGED <<handles, clients, ethQuery, probes, listeners, eipCalls>>
        ELSE /\ clients' = clients + 1
             /\ handles' = SetProviderAndBlockTracker(handles, clients')
             /\ eipCalls' = ProviderReplaced(eipCalls)
             /\ ethQuery' = TRUE
             /\ log' = <<"initializeProvider", "createNetworkClient", "setTarget">>
                       \o StartLookupLog(TRUE)
             /\ StartLookup(TRUE, FALSE)
  /\ notif' = "none"
  /\ UNCHANGED <<stateVars, previousProviderConfig, pc, cur, pre, history>>

SetProviderTypeAccepts_Rpc(type) == type = RpcType \/ IsInfuraProviderType(type)

\* the two assertions that open setProviderType
SetProviderTypeAccepts(type) == type # RpcType /\ IsInfuraProviderType(type)

\* setProviderType(type), up to the call of #refreshNetwork
SetProviderType(type) ==
  /\ CanInvoke /\ FreeProbes # {}
  /\ opCount' = opCount + 1
  /\ IF ~SetProviderTypeAccepts(type)
     THEN /\ log' = <<"setProviderType", "throw">>
          /\ notif' = "none"
          /\ UNCHANGED <<providerConfig, previousProviderConfig, pc, cur, pre, probes,
                         history>>
     ELSE /\ previousProviderConfig' = providerConfig
          /\ providerConfig' = ProviderTypeConfig(type)
          /\ history' = SwitchInvoked(history)
          /\ notif' = "stateChange"
          /\ log' = <<"setProviderType", "setProviderConfig">>
          /\ pc' = RefreshSteps[1]
          /\ cur' = [NoCur EXCEPT !.op = "setProviderType"]
          /\ pre' = Snapshot
          /\ probes' = SwitchBegins(probes)
  /\ UNCHANGED <<networkId, networkStatus, EIPS, networkConfigurations, ethQuery,
                 handles, clients, listeners, eipCalls>>

\* the body of setActiveNetwork(networkConfigurationId), up to the call of
\* #refreshNetwork
SetActiveNetworkCall(id) ==
  /\ previousProviderConfig' = providerConfig
  /\ IF id \notin DOMAIN networkConfigurations
     THEN /\ log' = <<"setActiveNetwork", "throw">>
          /\ notif' = "none"
          /\ UNCHANGED <<providerConfig, pc, cur, pre, probes, history>>
     ELSE /\ providerConfig' = ActiveNetworkConfig(networkConfigurations[id])
          /\ history' = SwitchInvoked(history)
          /\ notif' = "stateChange"
          /\ log' = <<"setActiveNetwork", "setProviderConfig">>
          /\ pc' = RefreshSteps[1]
          /\ cur' = [cur EXCEPT !.op = "setActiveNetwork"]
          /\ pre' = Snapshot
          /\ probes' = SwitchBegins(probes)
  /\ UNCHANGED <<networkId, networkStatus, EIPS, networkConfigurations, ethQuery,
                 handles, clients, listeners, eipCalls>>

\* setActiveNetwork called by a client of the controller
SetActiveNetwork(id) ==
  /\ CanInvoke /\ FreeProbes # {}
  /\ opCount' = opCount + 1
  /\ SetActiveNetworkCall(id)

\* resetConnection(): the call of #refreshNetwork
ResetConnection ==
  /\ CanInvoke /\ FreeProbes # {}
  /\ opCount' = opCount + 1
  /\ log' = <<"resetConnection">>
  /\ notif' = "none"
  /\ pc' = RefreshSteps[1]
  /\ cur' = [NoCur EXCEPT !.op = "resetConnection"]
  /\ pre' = Snapshot
  /\ UNCHANGED <<stateVars, previousProviderConfig, ethQuery, handles, clients,
                 listeners, probes, eipCalls, history>>

RollbackPrevious_Snapshots == providerConfig

\* #previousProviderConfig after rollbackToPreviousProvider: it is read, never
\* assigned
RollbackPrevious == previousProviderConfig

\* rollbackToPreviousProvider(), up to the call of #refreshNetwork
RollbackToPreviousProvider ==
  /\ CanInvoke /\ FreeProbes # {}
  /\ opCount' = opCount + 1
  /\ providerConfig' = previousProviderConfig
  /\ notif' = "stateChange"
  /\ log' = <<"rollbackToPreviousProvider", "setProviderConfig">>
  /\ pc' = RefreshSteps[1]
  /\ cur' = [NoCur EXCEPT !.op = "rollbackToPreviousProvider"]
  /\ pre' = Snapshot
  /\ previousProviderConfig' = RollbackPrevious
  /\ history' = RollbackInvoked(history)
  /\ UNCHANGED <<networkId, networkStatus, EIPS, networkConfigurations,
                 ethQuery, handles, clients, listeners, probes, eipCalls>>

\* ---------------------------------------------------------- #refreshNetwork
\* publish('NetworkController:networkWillChange')
RefreshWillChange ==
  /\ pc = "willChange"
  /\ notif' = "networkWillChange"
  /\ log' = Append(log, "networkWillChange")
  /\ pc' = After(RefreshSteps, "willChange")
  /\ UNCHANGED <<stateVars, previousProviderConfig, ethQuery, handles, clients,
                 listeners, probes, eipCalls, cur, pre, history, opCount>>

\* update(networkId = null, networkStatus = Unknown, networkDetails = {EIPS: {}})
RefreshResetState ==
  /\ pc = "resetState"
  /\ networkId' = ResetNetworkState.networkId
  /\ networkStatus' = ResetNetworkState.networkStatus
  /\ EIPS' = ResetNetworkState.EIPS
  /\ notif' = "stateChange"
  /\ log' = Append(log, "resetState")
  /\ pc' = After(RefreshSteps, "resetState")
  /\ UNCHANGED <<providerConfig, networkConfigurations, previousProviderConfig,
                 ethQuery, handles, clients, listeners, probes, eipCalls, cur,
                 pre, history, opCount>>

\* #configureProvider(type, rpcUrl, chainId) with the current providerConfig
RefreshConfigureProvider ==
  /\ pc = "configureProvider"
  /\ LET conf == ConfigureProvider(providerConfig.type, providerConfig.rpcUrl,
                                   providerConfig.chainId)
     IN IF ~conf.ok
        THEN /\ log' = log \o <<conf.error, "throw">>
             /\ pc' = "idle"
             /\ cur' = NoCur
             /\ pre' = NoPre
             /\ UNCHANGED <<handles, clients, ethQuery, eipCalls>>
        ELSE /\ clients' = clients + 1
             /\ handles' = SetProviderAndBlockTracker(handles, clients')
             /\ eipCalls' = ProviderReplaced(eipCalls)
             /\ ethQuery' = TRUE
             /\ log' = log \o <<"createNetworkClient", "setTarget">>
             /\ pc' = After(RefreshSteps, "configureProvider")
             /\ UNCHANGED <<cur, pre>>
  /\ notif' = "none"
  /\ UNCHANGED <<stateVars, previousProviderConfig, listeners, probes, history,
                 opCount>>

\* publish('NetworkController:networkDidChange'): every subscribed listener runs
RefreshDidChange ==
  /\ pc = "didChange"
  /\ notif' = "networkDidChange"
  /\ probes' = PublishDidChange(probes, listeners)
  /\ listeners' = {}
  /\ log' = Append(log, "networkDidChange")
  /\ pc' = After(RefreshSteps, "didChange")
  /\ UNCHANGED <<stateVars, previousProviderConfig, ethQuery, handles, clients,
                 eipCalls, cur, pre, history, opCount>>

\* await this.lookupNetwork(), up to its first await
RefreshLookupNetwork ==
  /\ pc = "lookupNetwork"
  /\ StartLookup(ethQuery, TRUE)
  /\ log' = log \o StartLookupLog(ethQuery)
  /\ notif' = "none"
  /\ pc' = After(RefreshSteps, "lookupNetwork")
  /\ cur' = NoCur
  /\ pre' = NoPre
  /\ history' = IF cur.op \in {"setProviderType", "setActiveNetwork"}
                THEN SwitchSucceeded(history, pre.providerConfig)
                ELSE history
  /\ UNCHANGED <<stateVars, previousProviderConfig, ethQuery, handles, clients,
                 eipCalls, opCount>>

\* ------------------------------------------------------------ lookupNetwork
\* lookupNetwork() called directly
LookupNetwork ==
  /\ CanInvoke
  /\ ethQuery => FreeProbes # {}
  /\ opCount' = opCount + 1
  /\ StartLookup(ethQuery, FALSE)
  /\ log' = <<"lookupNetwork">> \o StartLookupLog(ethQuery)
  /\ notif' = "none"
  /\ UNCHANGED <<stateVars, previousProviderConfig, ethQuery, handles, clients,
                 eipCalls, pc, cur, pre, history>>

NetVersionResponses ==
  [error : RequestErrors] \cup [result : RawNetworkIds]

GetBlockResponses ==
  [error : RequestErrors] \cup [result : Blocks]

IsError(response) == "error" \in DOMAIN response

GetNetworkId_CodedConversionError(response) ==
  IF IsError(response) THEN [ok |-> FALSE, error |-> response.error]
  ELSE LET conv == ConvertNetworkId(response.result)
       IN IF conv.ok THEN [ok |-> TRUE, value |-> conv.id]
          ELSE [ok |-> FALSE, error |-> LimitExceededError]

\* #getNetworkId: the sendAsync callback and the conversion of the result
GetNetworkId(response) ==
  IF IsError(response) THEN [ok |-> FALSE, error |-> response.error]
  ELSE LET conv == ConvertNetworkId(response.result)
       IN IF conv.ok THEN [ok |-> TRUE, value |-> conv.id]
          ELSE [ok |-> FALSE, error |-> PlainError]

DetermineEIP1559Compatibility_SwallowsError(response) ==
  IF IsError(response) THEN [ok |-> TRUE, value |-> FALSE]
  ELSE [ok |-> TRUE, value |-> IsEIP1559Block(response.result)]

\* #determineEIP1559Compatibility on top of #getLatestBlock
DetermineEIP1559Compatibility(response) ==
  IF IsError(response) THEN [ok |-> FALSE, error |-> response.error]
  ELSE [ok |-> TRUE, value |-> IsEIP1559Block(response.result)]

\* Promise.all of the two: `first` is the request that settles first
PromiseAll(net, blk, first) ==
  IF net.ok /\ blk.ok THEN [ok |-> TRUE, networkId |-> net.value, eip |-> blk.value]
  ELSE IF ~net.ok /\ (blk.ok \/ first = "net") THEN [ok |-> FALSE, error |-> net.error]
  ELSE [ok |-> FALSE, error |-> blk.error]

\* every way the two requests of one lookupNetwork can settle
LookupOutcomes ==
  { PromiseAll(GetNetworkId(netResponse), DetermineEIP1559Compatibility(blkResponse),
               first) :
      netResponse \in NetVersionResponses, blkResponse \in GetBlockResponses,
      first \in {"net", "blk"} }

LookupResult_DefaultAvailable(isInfura, outcome) ==
  IF outcome.ok
  THEN [networkStatus |-> Available, networkId |-> outcome.networkId,
        EIPS |-> (1559 :> outcome.eip)]
  ELSE [networkStatus |-> IF outcome.error.hasCode
                          THEN ClassifyError(isInfura, outcome.error)
                          ELSE Available,
        networkId |-> NullId, EIPS |-> NoEIPS]

LookupResult_KeepsDetails(isInfura, outcome) ==
  IF outcome.ok
  THEN [networkStatus |-> Available, networkId |-> outcome.networkId,
        EIPS |-> (1559 :> outcome.eip)]
  ELSE [networkStatus |-> ClassifyError(isInfura, outcome.error),
        networkId |-> NullId, EIPS |-> EIPS]

\* updatedNetworkStatus, updatedNetworkId, updatedIsEIP1559Compatible
LookupResult(isInfura, outcome) ==
  IF outcome.ok
  THEN [networkStatus |-> Available, networkId |-> outcome.networkId,
        EIPS |-> (1559 :> outcome.eip)]
  ELSE [networkStatus |-> ClassifyError(isInfura, outcome.error),
        networkId |-> NullId, EIPS |-> NoEIPS]

ReturnsEarly_Never(probe) == FALSE

\* whether lookupNetwork returns at `if (networkChanged)`
ReturnsEarly(probe) == probe.networkChanged

Catches_CodedOnly(error) == error.hasCode

\* whether the catch block of lookupNetwork handles the error: it handles
\* every one and rethrows none
Catches(error) == TRUE

\* the two requests of probe p have settled and lookupNetwork resumes, up to
\* its state update
ResumeLookup(p, outcome) ==
  /\ pc = "idle"
  /\ probes[p] # Free
  /\ probes' = [probes EXCEPT ![p] = Free]
  /\ IF ~outcome.ok /\ ~Catches(outcome.error)
     THEN /\ log' = <<"lookupNetwork", "throw">>
          /\ notif' = "none"
          /\ UNCHANGED <<networkId, networkStatus, EIPS, listeners, pc, cur>>
     ELSE IF ReturnsEarly(probes[p])
     THEN /\ log' = <<"lookupNetwork", "return:networkChanged">>
          /\ notif' = "none"
          /\ UNCHANGED <<networkId, networkStatus, EIPS, listeners, pc, cur>>
     ELSE LET result == LookupResult(probes[p].isInfura, outcome) IN
          /\ listeners' = listeners \ {p}
          /\ networkId' = result.networkId
          /\ networkStatus' = result.networkStatus
          /\ EIPS' = result.EIPS
          /\ notif' = "stateChange"
          /\ log' = <<"lookupNetwork", "unsubscribe", "commit">>
          /\ pc' = "lookupPublish"
          /\ cur' = [op |-> "lookupNetwork", isInfura |-> probes[p].isInfura,
                     status |-> result.networkStatus, received |-> outcome,
                     own |-> probes[p].own,
                     switchBegun |-> probes[p].switchBegun,
                     sawDidChange |-> probes[p].sawDidChange,
                     newNetworkConfigurationId |-> Undef]
  /\ UNCHANGED <<providerConfig, networkConfigurations, previousProviderConfig,
                 ethQuery, handles, clients, eipCalls, pre, history, opCount>>


LookupNotification_ByStatusOnly(isInfura, status) ==
  IF status = Available THEN "infuraIsUnblocked"
  ELSE IF status = Blocked THEN "infuraIsBlocked"
  ELSE "none"

\* the notification that ends lookupNetwork
LookupNotification(isInfura, status) ==
  IF isInfura
  THEN IF status = Available THEN "infuraIsUnblocked"
       ELSE IF status = Blocked THEN "infuraIsBlocked"
       ELSE "none"
  ELSE "infuraIsUnblocked"

\* lookupNetwork after its state update
LookupPublish ==
  /\ pc = "lookupPublish"
  /\ notif' = LookupNotification(cur.isInfura, cur.status)
  /\ log' = IF notif' = "none" THEN log ELSE Append(log, notif')
  /\ pc' = "idle"
  /\ cur' = NoCur
  /\ UNCHANGED <<stateVars, previousProviderConfig, ethQuery, handles, clients,
                 listeners, probes, eipCalls, pre, history, opCount>>

\* -------------------------------------------------- getEIP1559Compatibility
\* getEIP1559Compatibility(), up to its await
GetEIP1559Compatibility ==
  /\ CanInvoke
  /\ (1559 \notin DOMAIN EIPS /\ ethQuery) => FreeEipCalls # {}
  /\ opCount' = opCount + 1
  /\ notif' = "none"
  /\ IF 1559 \in DOMAIN EIPS
     THEN /\ log' = <<"getEIP1559Compatibility", "return:cached">>
          /\ UNCHANGED eipCalls
     ELSE IF ~ethQuery
     THEN /\ log' = <<"getEIP1559Compatibility", "return:noProvider">>
          /\ UNCHANGED eipCalls
     ELSE /\ eipCalls' = [eipCalls EXCEPT ![Min(FreeEipCalls)] =
                            [st |-> "awaiting", providerReplaced |-> FALSE,
                             network |-> providerConfig.chainId]]
          /\ log' = <<"getEIP1559Compatibility", "eth_getBlockByNumber">>
  /\ UNCHANGED <<stateVars, previousProviderConfig, ethQuery, handles, clients,
                 listeners, probes, pc, cur, pre, history>>

\* the request of getEIP1559Compatibility call i completes and the call resumes
CompleteEIP1559(i, response) ==
  /\ pc = "idle"
  /\ eipCalls[i] # Free
  /\ eipCalls' = [eipCalls EXCEPT ![i] = Free]
  /\ LET compat == DetermineEIP1559Compatibility(response)
     IN IF ~compat.ok
        THEN /\ notif' = "none"
             /\ log' = <<"getEIP1559Compatibility", "throw">>
             /\ UNCHANGED EIPS
        ELSE /\ EIPS' = (1559 :> compat.value)
             /\ notif' = "stateChange"
             /\ log' = <<"getEIP1559Compatibility", "commitEIP1559">>
  /\ UNCHANGED <<networkId, networkStatus, providerConfig, networkConfigurations,
                 previousProviderConfig, ethQuery, handles, clients, listeners,
                 probes, pc, cur, pre, history, opCount>>

\* ------------------------------------------------- network configurations
\* String.prototype.toLowerCase on the rpcUrls that are given below
ToLowerCase(s) ==
  CASE s = "HTTPS://MOCK-RPC-URL" -> "https://mock-rpc-url"
    [] OTHER -> s

\* assertIsStrictHexString accepts: 0x followed by hexadecimal digits
IsStrictHexString(value) == value \in {"0x1", "0x539", "0xFFFFFFFFFFFFFFFF"}

\* isSafeChainId: the value is positive and at most the largest safe chain id
IsSafeChainId(chainId) == chainId \in {"0x1", "0x539"}

\* new URL(rpcUrl) does not throw 'Invalid URL'
IsUrl(rpcUrl) ==
  rpcUrl \in {"https://mock-rpc-url", "HTTPS://MOCK-RPC-URL", "https://rpc-url.com"}

Passed == "passed"

Validate_TickerOptional(configuration, options) ==
  IF ~IsStrictHexString(configuration.chainId) THEN "notStrictHex"
  ELSE IF ~IsSafeChainId(configuration.chainId) THEN "unsafeChainId"
  ELSE IF configuration.rpcUrl = Undef THEN "rpcUrlRequired"
  ELSE IF options.referrer = Undef \/ options.source = Undef
  THEN "referrerAndSourceRequired"
  ELSE IF ~IsUrl(configuration.rpcUrl) THEN "invalidUrl"
  ELSE Passed

\* the checks that open upsertNetworkConfiguration, in program order: the
\* error thrown, or Passed
Validate(configuration, options) ==
  IF ~IsStrictHexString(configuration.chainId) THEN "notStrictHex"
  ELSE IF ~IsSafeChainId(configuration.chainId) THEN "unsafeChainId"
  ELSE IF configuration.rpcUrl = Undef THEN "rpcUrlRequired"
  ELSE IF options.referrer = Undef \/ options.source = Undef
  THEN "referrerAndSourceRequired"
  ELSE IF ~IsUrl(configuration.rpcUrl) THEN "invalidUrl"
  ELSE IF configuration.ticker = Undef THEN "tickerRequired"
  ELSE Passed

MatchingRpcUrl(configurations, rpcUrl) ==
  {k \in DOMAIN configurations :
     /\ configurations[k].rpcUrl # Undef
     /\ ToLowerCase(configurations[k].rpcUrl) = ToLowerCase(rpcUrl)}

OldNetworkConfigurationId_CaseSensitive(configurations, rpcUrl) ==
  LET found == {k \in DOMAIN configurations : configurations[k].rpcUrl = rpcUrl}
  IN IF found = {} THEN Undef ELSE configurations[CHOOSE k \in found : TRUE].id

\* the id field of the entry whose rpcUrl equals the given one in lower case
OldNetworkConfigurationId(configurations, rpcUrl) ==
  LET found == MatchingRpcUrl(configurations, rpcUrl)
  IN IF found = {} THEN Undef ELSE configurations[CHOOSE k \in found : TRUE].id

\* random(): a version 4 uuid, which no other call produces
Random == "uuid" \o ToString(opCount + 1)

StoredConfiguration(configuration, id) ==
  [rpcUrl |-> configuration.rpcUrl, chainId |-> configuration.chainId,
   ticker |-> configuration.ticker, nickname |-> configuration.nickname,
   rpcPrefs |-> configuration.rpcPrefs, id |-> id]

UpsertedConfigurations_Merges(configurations, id, configuration) ==
  [k \in DOMAIN configurations \cup {id} |->
     IF k # id THEN configurations[k]
     ELSE IF id \in DOMAIN configurations
     THEN [f \in DOMAIN configurations[id] |->
             IF f = "id" THEN id
             ELSE IF configuration[f] = Undef THEN configurations[id][f]
             ELSE configuration[f]]
     ELSE StoredConfiguration(configuration, id)]

\* the update callback of upsertNetworkConfiguration
UpsertedConfigurations(configurations, id, configuration) ==
  [k \in DOMAIN configurations \cup {id} |->
     IF k = id THEN StoredConfiguration(configuration, id) ELSE configurations[k]]

\* upsertNetworkConfiguration(configuration, options), up to the call of
\* setActiveNetwork or, without setActive, to its return
UpsertNetworkConfiguration(configuration, options) ==
  LET oldNetworkConfigurationId ==
        OldNetworkConfigurationId(networkConfigurations, configuration.rpcUrl)
      newNetworkConfigurationId ==
        IF oldNetworkConfigurationId # Undef THEN oldNetworkConfigurationId ELSE Random
      failure == Validate(configuration, options)
  IN
  /\ CanInvoke /\ (options.setActive => FreeProbes # {})
  /\ opCount' = opCount + 1
  /\ IF failure # Passed
     THEN /\ log' = <<"upsertNetworkConfiguration", failure, "throw">>
          /\ notif' = "none"
          /\ UNCHANGED <<networkConfigurations, pc, cur>>
     ELSE /\ networkConfigurations' =
               UpsertedConfigurations(networkConfigurations, newNetworkConfigurationId,
                                      configuration)
          /\ notif' = "stateChange"
          /\ log' = <<"upsertNetworkConfiguration", "setNetworkConfigurations">>
                    \o (IF oldNetworkConfigurationId = Undef
                        THEN <<"trackMetaMetricsEvent">> ELSE <<>>)
                    \o (IF options.setActive THEN <<>>
                        ELSE <<"return:" \o newNetworkConfigurationId>>)
          /\ pc' = IF options.setActive THEN "upsertSetActive" ELSE "idle"
          /\ cur' = IF options.setActive
                    THEN [NoCur EXCEPT !.op = "upsertNetworkConfiguration",
                            !.newNetworkConfigurationId = newNetworkConfigurationId]
                    ELSE NoCur
  /\ UNCHANGED <<networkId, networkStatus, providerConfig, EIPS, previousProviderConfig,
                 ethQuery, handles, clients, listeners, probes, eipCalls, pre, history>>

\* await this.setActiveNetwork(newNetworkConfigurationId)
UpsertSetActive ==
  /\ pc = "upsertSetActive"
  /\ SetActiveNetworkCall(cur.newNetworkConfigurationId)
  /\ UNCHANGED opCount

RemovedConfigurations_Clears(configurations, id) == <<>>

\* delete state.networkConfigurations[networkConfigurationId]
RemovedConfigurations(configurations, id) ==
  [k \in DOMAIN configurations \ {id} |-> configurations[k]]

\* removeNetworkConfiguration(networkConfigurationId)
RemoveNetworkConfiguration(id) ==
  /\ CanInvoke
  /\ opCount' = opCount + 1
  /\ IF id \notin DOMAIN networkConfigurations
     THEN /\ log' = <<"removeNetworkConfiguration", "throw">>
          /\ notif' = "none"
          /\ UNCHANGED networkConfigurations
     ELSE /\ networkConfigurations' = RemovedConfigurations(networkConfigurations, id)
          /\ notif' = "stateChange"
          /\ log' = <<"removeNetworkConfiguration", "setNetworkConfigurations">>
  /\ UNCHANGED <<networkId, networkStatus, providerConfig, EIPS, previousProviderConfig,
                 ethQuery, handles, clients, listeners, probes, eipCalls, pc, cur, pre,
                 history>>

\* configurations given to upsertNetworkConfiguration
GivenConfiguration(rpcUrl, chainId, ticker, nickname, rpcPrefs) ==
  [rpcUrl |-> rpcUrl, chainId |-> chainId, ticker |-> ticker, nickname |-> nickname,
   rpcPrefs |-> rpcPrefs]

ValidConfigurations ==
  { GivenConfiguration("https://mock-rpc-url", "0x539", "TEST", Undef, Undef),
    GivenConfiguration("HTTPS://MOCK-RPC-URL", "0x1", "new_rpc_ticker",
                       "new_rpc_nickname", "alternativetestchainscan.io"),
    GivenConfiguration("https://rpc-url.com", "0x1", "RPC", "RPC", Undef) }

InvalidConfigurations ==
  { GivenConfiguration("https://mock-rpc-url", "1", "RPC", "RPC", Undef),
    GivenConfiguration("https://mock-rpc-url", "0xFFFFFFFFFFFFFFFF", "RPC", "RPC", Undef),
    GivenConfiguration("https://mock-rpc-url", Undef, "RPC", "RPC", Undef),
    GivenConfiguration(Undef, "0x1", "RPC", "RPC", Undef),
    GivenConfiguration("rpc_url", "0x1", "RPC", "RPC", Undef),
    GivenConfiguration("HTTPS://MOCK-RPC-URL", "0x1", Undef, "RPC", Undef) }

UpsertConfigurations == ValidConfigurations \cup InvalidConfigurations

UpsertOptions ==
  { [setActive |-> a, referrer |-> r, source |-> s] :
      a \in BOOLEAN, r \in {Undef, "https://test-dapp.com"}, s \in {Undef, "dapp"} }

RemoveIds == {"id1", "uuid1", "uuid2", "nope"}

\* ------------------------------------------------------------ specification
SwitchTypes == {"mainnet", "goerli", RpcType, "bogus"}
SwitchIds == {"id1", "id2", "id3", "nope"}

Next ==
  \/ InitializeProvider
  \/ \E type \in SwitchTypes : SetProviderType(type)
  \/ \E id \in SwitchIds : SetActiveNetwork(id)
  \/ ResetConnection
  \/ RollbackToPreviousProvider
  \/ RefreshWillChange
  \/ RefreshResetState
  \/ RefreshConfigureProvider
  \/ RefreshDidChange
  \/ RefreshLookupNetwork
  \/ LookupNetwork
  \/ \E p \in ProbeIds, outcome \in LookupOutcomes : ResumeLookup(p, outcome)
  \/ LookupPublish
  \/ GetEIP1559Compatibility
  \/ \E i \in EipIds, response \in GetBlockResponses : CompleteEIP1559(i, response)

Spec == Init /\ [][Next]_vars

\* the same program when every handler that has started runs to its end and
\* the requests of every probe eventually complete
Fairness ==
  /\ WF_vars(RefreshWillChange)
  /\ WF_vars(RefreshResetState)
  /\ WF_vars(RefreshConfigureProvider)
  /\ WF_vars(RefreshDidChange)
  /\ WF_vars(RefreshLookupNetwork)
  /\ WF_vars(LookupPublish)
  /\ \A p \in ProbeIds : WF_vars(\E outcome \in LookupOutcomes : ResumeLookup(p, outcome))

FairSpec == Init /\ [][Next]_vars /\ Fairness

\* a controller constructed without network configurations
EmptyRegistryInit ==
  /\ networkId = NullId
  /\ networkStatus = Unknown
  /\ providerConfig = DefaultProviderConfig
  /\ EIPS = NoEIPS
  /\ networkConfigurations = <<>>
  /\ previousProviderConfig = providerConfig
  /\ ethQuery = FALSE
  /\ handles = NoHandles
  /\ clients = 0
  /\ listeners = {}
  /\ probes = [p \in ProbeIds |-> Free]
  /\ eipCalls = [i \in EipIds |-> Free]
  /\ pc = "idle"
  /\ cur = NoCur
  /\ notif = "none"
  /\ log = <<>>
  /\ pre = NoPre
  /\ history = [switches |-> 0, from |-> providerConfig, rollbacks |-> 0]
  /\ opCount = 0

\* the operations on the network configurations, with the switch that
\* upsertNetworkConfiguration makes when setActive is given and the switches
\* to the configurations they leave
RegistryNext ==
  \/ \E configuration \in UpsertConfigurations, options \in UpsertOptions :
       UpsertNetworkConfiguration(configuration, options)
  \/ UpsertSetActive
  \/ \E id \in RemoveIds : RemoveNetworkConfiguration(id)
  \/ \E id \in RemoveIds : SetActiveNetwork(id)
  \/ RefreshWillChange
  \/ RefreshResetState
  \/ RefreshConfigureProvider
  \/ RefreshDidChange
  \/ RefreshLookupNetwork
  \/ \E p \in ProbeIds, outcome \in LookupOutcomes : ResumeLookup(p, outcome)
  \/ LookupPublish

RegistrySpec == EmptyRegistryInit /\ [][RegistryNext]_vars


\* ------------------------------------------------------------- properties
Has(e) == \E i \in 1..Len(log) : log[i] = e
Pos(e) == IF Has(e) THEN Min({i \in 1..Len(log) : log[i] = e}) ELSE 0
Last(l) == IF l = <<>> THEN "none" ELSE l[Len(l)]
Count(e) == Cardinality({i \in 1..Len(log) : log[i] = e})

SwitchOps == {"setProviderType", "setActiveNetwork"}
RefreshOps == SwitchOps \cup {"resetConnection", "rollbackToPreviousProvider"}

\* the log is that of an operation that runs #refreshNetwork
IsRefreshRun == log # <<>> /\ log[1] \in RefreshOps
\* #refreshNetwork is running
InRefresh == pc \notin {"idle", "lookupPublish"}
SentRequests == Has("net_version") \/ Has("eth_getBlockByNumber")
InFlight == {p \in ProbeIds : probes[p] # Free}

\* C1: a lookupNetwork probe that was in flight when a switch
\* (setProviderType / setActiveNetwork) began never commits: what is committed
\* once the requests have completed was never computed by that probe.
C1_SupersededProbeNeverCommits ==
  pc = "lookupPublish" => ~cur.switchBegun

\* C2: a probe during whose requests networkDidChange was published makes no
\* state update and publishes neither infuraIsBlocked nor infuraIsUnblocked,
\* whatever its requests returned: it returns without a further step.
C2_StaleProbeDiscarded ==
  [][\A p \in ProbeIds :
       (probes[p] # Free /\ probes[p].sawDidChange /\ probes'[p] = Free)
         => (UNCHANGED stateVars /\ notif' = "none" /\ pc' = "idle")]_vars

C2_Witness ==
  /\ log = <<"lookupNetwork", "return:networkChanged">>
  /\ clients >= 2

\* C3: in every refresh sequence networkWillChange is published before the
\* handle targets are replaced, networkDidChange after the replacement and
\* before the post-switch lookupNetwork sends a request; a sequence that did
\* not throw has published both.
C3_RefreshOrder ==
  IsRefreshRun =>
    /\ Count("networkWillChange") <= 1 /\ Count("networkDidChange") <= 1
    /\ Count("setTarget") <= 1
    /\ Has("setTarget")
         => (0 < Pos("networkWillChange") /\ Pos("networkWillChange") < Pos("setTarget"))
    /\ Has("networkDidChange")
         => (0 < Pos("setTarget") /\ Pos("setTarget") < Pos("networkDidChange"))
    /\ SentRequests
         => /\ 0 < Pos("networkDidChange")
            /\ Has("net_version") => Pos("networkDidChange") < Pos("net_version")
            /\ Has("eth_getBlockByNumber")
                 => Pos("networkDidChange") < Pos("eth_getBlockByNumber")
    /\ (pc = "idle" /\ Last(log) # "throw")
         => (Has("networkWillChange") /\ Has("networkDidChange") /\ SentRequests)

C3_Witness ==
  /\ IsRefreshRun /\ pc = "idle" /\ SentRequests
  /\ handles.providerTarget >= 2

\* C4: a refresh sequence resets networkStatus to Unknown, networkId to null
\* and EIPS to empty in one state update, made before the new provider and
\* block tracker are installed; the state is the reset one at installation.
C4_ResetBeforeInstall ==
  IsRefreshRun =>
    /\ Count("resetState") <= 1
    /\ Has("setTarget") => (0 < Pos("resetState") /\ Pos("resetState") < Pos("setTarget"))
    /\ (InRefresh /\ Last(log) \in {"resetState", "setTarget"})
         => (networkStatus = Unknown /\ networkId = NullId /\ EIPS = NoEIPS)
    /\ (InRefresh /\ Last(log) = "resetState")
         => (notif = "stateChange" /\ ~Has("setTarget"))

C4_Witness ==
  /\ IsRefreshRun /\ InRefresh /\ Last(log) = "setTarget"
  /\ pre.taken /\ pre.networkStatus = Available /\ 1559 \in DOMAIN pre.EIPS

\* the network a provider configuration selects
NetworkOf(config) ==
  [type |-> config.type, rpcUrl |-> config.rpcUrl, chainId |-> config.chainId]

\* C5: no observable state has providerConfig describing the newly selected
\* network while networkStatus, networkId or EIPS still hold what was probed
\* for the previously selected one.
C5_NoMixedState ==
  (pre.taken /\ NetworkOf(providerConfig) # NetworkOf(pre.providerConfig))
    => (networkStatus = Unknown /\ networkId = NullId /\ EIPS = NoEIPS)

\* C6 as stated: networkStatus is Unknown in every state from the publication
\* of networkWillChange until the commit of the sequence's own lookupNetwork.
C6_UnknownFromWillChange ==
  /\ (IsRefreshRun /\ InRefresh /\ Has("networkWillChange")) => networkStatus = Unknown
  /\ (\E p \in InFlight : probes[p].own /\ ~probes[p].networkChanged)
       => networkStatus = Unknown

\* C6 amended: the state update that follows the publication of
\* networkWillChange leaves networkStatus Unknown, and from then on it stays
\* Unknown until the next commit of a lookupNetwork probe, whichever probe
\* that is; getEIP1559Compatibility never changes it.
C6_UnknownFromResetToCommit ==
  [][/\ (IsRefreshRun' /\ Last(log') = "resetState") => networkStatus' = Unknown
     /\ (networkStatus = Unknown /\ networkStatus' # Unknown)
          => (pc = "idle" /\ pc' = "lookupPublish" /\ notif' = "stateChange")]_vars

C6_Witness ==
  /\ IsRefreshRun /\ Last(log) = "resetState"
  /\ pre.taken /\ pre.networkStatus = Blocked /\ networkStatus = Unknown

\* C7: when networkWillChange is published by a switch operation the
\* controller state still equals the state in which the operation was invoked.
C7_WillChangeBeforeStateChanges ==
  (notif = "networkWillChange" /\ cur.op \in SwitchOps \cup {"rollbackToPreviousProvider"})
    => Snapshot = pre

\* C8: once the proxies exist, getProviderAndBlockTracker returns the same
\* provider proxy and the same block-tracker proxy after every operation;
\* only their targets change.
C8_ProxyIdentityStable ==
  [][GetProviderAndBlockTracker.provider # 0
       => GetProviderAndBlockTracker' = GetProviderAndBlockTracker]_vars

C8_Witness ==
  /\ GetProviderAndBlockTracker = [provider |-> 1, blockTracker |-> 2]
  /\ handles.providerTarget >= 3

\* C9: the two handles are swapped together: in every state both target the
\* provider and block tracker of the same createNetworkClient call, the latest.
C9_HandlesSwappedTogether ==
  /\ handles.providerTarget = handles.blockTrackerTarget
  /\ handles.providerTarget = clients
  /\ (handles.providerProxy = 0) <=> (handles.blockTrackerProxy = 0)

C9_Witness ==
  /\ notif = "networkDidChange" /\ InFlight # {}
  /\ handles.blockTrackerTarget = 2

\* a refresh sequence is between its networkWillChange and its networkDidChange
BetweenWillAndDid ==
  InRefresh /\ Has("networkWillChange") /\ ~Has("networkDidChange")

\* C10: between the networkWillChange and the networkDidChange of a refresh
\* sequence no operation is invoked, so that no other sequence publishes
\* networkWillChange, resets the status or replaces the targets: every step
\* taken there is the next statement of that same sequence.
C10_RefreshNotInterleaved ==
  [][BetweenWillAndDid
       => /\ opCount' = opCount
          /\ cur'.op \in {cur.op, "none"}
          /\ notif' # "networkWillChange"
          /\ Len(log') = Len(log) + 1 \/ Last(log') \in {"setTarget", "throw"}
          /\ SubSeq(log', 1, Len(log)) = log]_vars

C10_Witness ==
  /\ BetweenWillAndDid /\ Has("setTarget")
  /\ Cardinality(InFlight) >= 1
  /\ \E i \in EipIds : eipCalls[i] # Free

\* rollbackToPreviousProvider has just been invoked
RollbackInvokedNow == log = <<"rollbackToPreviousProvider", "setProviderConfig">>

\* C11: rollbackToPreviousProvider called when exactly one switch
\* (setProviderType or setActiveNetwork) has succeeded makes providerConfig
\* equal, field for field, to the providerConfig that was active when that
\* switch was invoked.
C11_RollbackRestoresPreSwitch ==
  (RollbackInvokedNow /\ history.switches = 1) => providerConfig = history.from

\* C12 as stated: rollbackToPreviousProvider stores the configuration that was
\* active immediately before the rollback as the previous configuration (so
\* that a second rollback would return to it).
C12_RollbackSnapshotsCurrent ==
  RollbackInvokedNow => previousProviderConfig = pre.providerConfig

\* C12 amended: rollbackToPreviousProvider sets providerConfig to the stored
\* previous configuration and leaves the stored one as it was, so a second
\* rollback, with no switch in between, leaves providerConfig where the first
\* rollback put it.
C12_RollbackKeepsPrevious ==
  [][RollbackInvokedNow' /\ opCount' = opCount + 1
       => /\ providerConfig' = previousProviderConfig
          /\ previousProviderConfig' = previousProviderConfig
          /\ history.rollbacks >= 1 => providerConfig' = providerConfig]_vars

C12_Witness ==
  /\ RollbackInvokedNow /\ history.rollbacks = 2 /\ history.switches = 1
  /\ providerConfig = history.from /\ previousProviderConfig = providerConfig
  /\ handles.providerTarget = 2

\* C13: setActiveNetwork with an id that is not in networkConfigurations
\* changes nothing: providerConfig, the stored previous configuration,
\* networkStatus, networkId, EIPS, the registry and the handles are as before
\* and no notification is published.
C13_UnknownIdChangesNothing ==
  [][\A id \in SwitchIds :
       (id \notin DOMAIN networkConfigurations /\ SetActiveNetwork(id))
         => /\ UNCHANGED <<stateVars, previousProviderConfig, handles, clients>>
            /\ notif' = "none"]_vars

\* the configuration names a custom endpoint without its rpcUrl or chainId
LacksEndpoint(config) ==
  config.type = RpcType /\ (config.rpcUrl = Undef \/ config.chainId = Undef)

\* this step is a step of a call of setActiveNetwork with an id whose stored
\* definition lacks rpcUrl or chainId: the invocation, or a step of its
\* #refreshNetwork
IncompleteSwitchStep ==
  \/ \E id \in SwitchIds :
       /\ id \in DOMAIN networkConfigurations
       /\ LacksEndpoint(ActiveNetworkConfig(networkConfigurations[id]))
       /\ SetActiveNetwork(id)
  \/ InRefresh /\ cur.op = "setActiveNetwork" /\ LacksEndpoint(providerConfig)

\* C14: setActiveNetwork with an id whose stored definition has no rpcUrl (no
\* chainId) fails with the missing-rpcUrl (missing-chainId) error; no step of
\* the call creates a network client or changes the handles and their targets.
C14_NoClientForIncompleteDefinition ==
  [][IncompleteSwitchStep
       => /\ UNCHANGED <<handles, clients, ethQuery>>
          /\ GetProviderAndBlockTracker' = GetProviderAndBlockTracker
          /\ ~\E i \in 1..Len(log') : log'[i] \in {"createNetworkClient", "setTarget"}
          /\ pc' = "idle"
               => /\ Len(log') >= 3 /\ Last(log') = "throw"
                  /\ log'[Len(log') - 1] =
                       IF providerConfig'.chainId = Undef
                       THEN "chainId must be provided" ELSE "rpcUrl must be provided"]_vars

C14_Witness ==
  /\ log # <<>> /\ log[1] = "setActiveNetwork" /\ Last(log) = "throw"
  /\ Has("rpcUrl must be provided")
  /\ handles.providerTarget = 1 /\ clients = 1

\* C15: when setActiveNetwork fails because the stored definition lacks
\* rpcUrl or chainId, the system is as it was when the call was made
\* (providerConfig, networkStatus, networkId, EIPS) and neither
\* networkWillChange nor networkDidChange has been published.
C15_FailedSwitchChangesNothing ==
  [][(IncompleteSwitchStep /\ pc' = "idle")
       => /\ Last(log') = "throw"
          /\ pre.taken /\ Snapshot' = pre
          /\ ~\E i \in 1..Len(log') : log'[i] \in {"networkWillChange", "networkDidChange"}]_vars

\* C16: setProviderType with 'rpc' or with a name that is no Infura network
\* changes nothing: providerConfig, the stored previous configuration,
\* networkStatus, networkId, EIPS and the handles keep their values, no
\* network client is created and no notification is published.
C16_RejectedTypeChangesNothing ==
  [][\A type \in SwitchTypes :
       ((type = RpcType \/ type \notin InfuraNetworkType) /\ SetProviderType(type))
         => /\ UNCHANGED <<stateVars, previousProviderConfig, handles, clients,
                           ethQuery, probes, pc>>
            /\ notif' = "none"]_vars

C16_Witness ==
  /\ log = <<"setProviderType", "throw">>
  /\ previousProviderConfig # providerConfig
  /\ networkStatus = Available /\ handles.providerTarget = 2

\* the requests of a probe failed with the geofencing (country blocked) error
Geofenced == [ok |-> FALSE, error |-> BlockedInfuraError]

\* how often e occurs in l
CountIn(l, e) == Cardinality({i \in 1..Len(l) : l[i] = e})

\* C17: a probe that received the geofencing error and commits has committed
\* Blocked when it probed a managed (Infura) network, and then publishes
\* exactly one infuraIsBlocked and no infuraIsUnblocked; it has committed
\* Unknown when it probed a direct (rpc) endpoint, and then publishes exactly
\* one infuraIsUnblocked and no infuraIsBlocked.
C17_GeofencedProbe ==
  [][(pc = "lookupPublish" /\ cur.received = Geofenced)
       => /\ networkStatus = IF cur.isInfura THEN Blocked ELSE Unknown
          /\ networkId = NullId /\ EIPS = NoEIPS
          /\ pc' = "idle"
          /\ CountIn(log', "infuraIsBlocked") = IF cur.isInfura THEN 1 ELSE 0
          /\ CountIn(log', "infuraIsUnblocked") = IF cur.isInfura THEN 0 ELSE 1
          /\ notif' = IF cur.isInfura THEN "infuraIsBlocked" ELSE "infuraIsUnblocked"
          /\ UNCHANGED stateVars]_vars

C17_Witness ==
  /\ pc = "lookupPublish" /\ cur.received = Geofenced /\ ~cur.isInfura
  /\ networkStatus = Unknown /\ providerConfig.type = RpcType

SwitchedToRpc ==
  /\ pc = "lookupNetwork" /\ cur.op \in SwitchOps \cup {"rollbackToPreviousProvider"}
  /\ pre.taken /\ IsInfuraProviderType(pre.providerConfig.type)
  /\ providerConfig.type = RpcType

\* a further switch or rollback has been invoked and has set providerConfig
FurtherSwitch ==
  pc = "willChange" /\ cur.op \in SwitchOps \cup {"rollbackToPreviousProvider"}

\* C19: after a switch from a managed network to a direct (rpc) endpoint,
\* when the requests of the probes complete, infuraIsUnblocked is eventually
\* published unless a further switch is made, whatever the requests of the
\* probe of the direct endpoint return.
C19_UnblockedAfterSwitchToRpc ==
  SwitchedToRpc ~> (notif = "infuraIsUnblocked" \/ FurtherSwitch)

C19_Witness ==
  /\ notif = "infuraIsUnblocked" /\ providerConfig.type = RpcType
  /\ networkStatus = Unavailable
  /\ history.switches = 1 /\ IsInfuraProviderType(history.from.type)

\* what a probe receives when net_version returns a value that is no number,
\* 0x-hex string or decimal string and the block request does not fail first
MalformedIdOutcomes ==
  { PromiseAll(GetNetworkId([result |-> value]),
               DetermineEIP1559Compatibility(blkResponse), first) :
      value \in {v \in RawNetworkIds : ~ConvertNetworkId(v).ok},
      blkResponse \in GetBlockResponses,
      first \in {"net"} }

\* C20 as stated: a probe whose net_version request returns a malformed
\* network id commits status Unavailable.
C20_MalformedIdUnavailable ==
  (pc = "lookupPublish" /\ cur.received \in MalformedIdOutcomes)
    => networkStatus = Unavailable

\* C20 amended: a probe whose net_version request returns a malformed network
\* id, and whose block request does not fail first, commits status Unknown,
\* with networkId null and EIPS empty, for both kinds of network.
C20_MalformedIdUnknown ==
  (pc = "lookupPublish" /\ cur.received \in MalformedIdOutcomes)
    => (networkStatus = Unknown /\ networkId = NullId /\ EIPS = NoEIPS)

C20_Witness ==
  /\ pc = "lookupPublish" /\ cur.received \in MalformedIdOutcomes
  /\ cur.isInfura /\ networkStatus = Unknown /\ handles.providerTarget = 2

\* the status the tests state for error e received by a probe: by the code of
\* the error alone
StatusByCode(e) ==
  IF ~e.hasCode THEN Unknown
  ELSE IF e.internal THEN Unknown
  ELSE Unavailable

\* C21: a probe that received an error has committed the status the tests
\* state: Unknown for the internal-error code, Unavailable for any other
\* code, Unknown for an error without a code (the one raised for an invalid
\* network id included); the geofencing body makes it Blocked on an error
\* that carries a code, and only when the probe is of a managed (Infura) network.
C21_ErrorClassification ==
  (pc = "lookupPublish" /\ "error" \in DOMAIN cur.received)
    => LET e == cur.received.error IN
       /\ ~e.blockedBody => networkStatus = StatusByCode(e)
       /\ (e.blockedBody /\ ~cur.isInfura) => networkStatus = StatusByCode(e)
       /\ (e.blockedBody /\ cur.isInfura /\ e.hasCode) => networkStatus = Blocked
       /\ (e.blockedBody /\ cur.isInfura /\ ~e.hasCode) => networkStatus = Unknown
       /\ cur.received \in MalformedIdOutcomes => networkStatus = Unknown

C21_Witness ==
  /\ pc = "lookupPublish" /\ "error" \in DOMAIN cur.received
  /\ cur.received.error = GenericInternalError /\ cur.isInfura
  /\ networkStatus = Unknown /\ pre = NoPre /\ handles.providerTarget = 2

\* C22: a probe that is not stale makes a single commit.  When its requests
\* failed the commit sets networkId to null and removes EIPS[1559], whatever
\* they held before; when they succeeded it sets networkStatus to Available,
\* networkId to the decimal form of the net_version result and EIPS[1559] to
\* the boolean observed on the latest block.  Nothing else of the state
\* changes, and the step that follows the commit changes no state.
C22_SingleCommit ==
  [][/\ (pc = "idle" /\ pc' = "lookupPublish")
          => /\ log' = <<"lookupNetwork", "unsubscribe", "commit">>
             /\ UNCHANGED <<providerConfig, networkConfigurations>>
             /\ "error" \in DOMAIN cur'.received
                  => (networkId' = NullId /\ 1559 \notin DOMAIN EIPS')
             /\ "error" \notin DOMAIN cur'.received
                  => /\ networkStatus' = Available
                     /\ networkId' = cur'.received.networkId
                     /\ Len(networkId') > 0
                     /\ \A i \in 1..Len(networkId') : networkId'[i] \in 0..9
                     /\ 1559 \in DOMAIN EIPS'
                     /\ EIPS'[1559] = cur'.received.eip
                     /\ EIPS'[1559] \in BOOLEAN
     /\ pc = "lookupPublish"
          => (UNCHANGED stateVars /\ CountIn(log', "commit") = 1)]_vars

C22_Witness ==
  /\ pc = "lookupPublish" /\ "error" \in DOMAIN cur.received
  /\ cur.received.error = LimitExceededError
  /\ networkId = NullId /\ EIPS = NoEIPS /\ opCount = 3

\* this step is the state update that begins a refresh sequence
ResetStep == pc = "resetState" /\ Last(log') = "resetState"

\* this step is the commit of a lookupNetwork probe
CommitStep == pc = "idle" /\ pc' = "lookupPublish"

\* C23 as stated: networkStatus changes only from Unknown to Available on
\* probe success, from Unknown to Unavailable or Blocked on a classified
\* probe failure, or from any value to Unknown when a refresh sequence begins.
C23_TransitionsFromUnknown ==
  [][networkStatus' # networkStatus
       => \/ ResetStep /\ networkStatus' = Unknown
          \/ /\ CommitStep /\ networkStatus = Unknown
             /\ networkStatus' = Available <=> "error" \notin DOMAIN cur'.received]_vars

\* C23 amended: networkStatus changes only in the state update that begins a
\* refresh sequence, which sets it to Unknown, and in the commit of a probe,
\* which sets it to Available exactly when the requests succeeded and to the
\* classified status otherwise; the commit may start from any status.
C23_TransitionsByResetOrCommit ==
  [][networkStatus' # networkStatus
       => \/ ResetStep /\ networkStatus' = Unknown
          \/ /\ CommitStep
             /\ networkStatus' = Available <=> "error" \notin DOMAIN cur'.received
             /\ "error" \in DOMAIN cur'.received
                  => networkStatus' \in {Unavailable, Unknown, Blocked}]_vars

C23_Witness ==
  /\ pc = "lookupPublish" /\ networkStatus = Unavailable
  /\ clients = 1 /\ opCount = 3 /\ history.switches = 0
  /\ ~cur.switchBegun /\ ~cur.sawDidChange

\* C24: the probe that a switch, reset or rollback started after installing
\* its resources never makes the operation fail, whatever its two requests
\* return: lookupNetwork returns normally, and unless the probe is stale the
\* error it received is committed as a status.
C24_ProbeErrorsNeverSurface ==
  [][\A p \in ProbeIds :
       (probes[p] # Free /\ probes[p].own /\ probes'[p] = Free)
         => /\ Last(log') # "throw"
            /\ ~probes[p].networkChanged
                 => /\ pc' = "lookupPublish" /\ Last(log') = "commit"
                    /\ "error" \in DOMAIN cur'.received
                         => networkStatus' \in {Unavailable, Unknown, Blocked}]_vars

C24_Witness ==
  /\ pc = "lookupPublish" /\ cur.own /\ "error" \in DOMAIN cur.received
  /\ cur.received.error = PlainError /\ networkStatus = Unknown
  /\ history.rollbacks = 1

\* the requests a step sends: entries of its log that name a request
RequestsIn(l) == CountIn(l, "eth_getBlockByNumber") + CountIn(l, "net_version")

\* C25 as stated: getEIP1559Compatibility sends no request and changes no
\* state when EIPS[1559] is cached; when it is absent it always sends one
\* request.
C25_AbsentAlwaysRequests ==
  [][GetEIP1559Compatibility
       => /\ 1559 \in DOMAIN EIPS
               => (RequestsIn(log') = 0 /\ UNCHANGED <<stateVars, eipCalls>>)
          /\ 1559 \notin DOMAIN EIPS
               => (RequestsIn(log') = 1 /\ eipCalls' # eipCalls)]_vars

\* C25 amended: getEIP1559Compatibility sends no request and changes no state
\* when EIPS[1559] is cached; when it is absent and a provider has been
\* installed it sends exactly one request, and when that request succeeds
\* the call stores the observed boolean in EIPS[1559] and changes nothing else.
C25_RequestsWhenAbsentAndInstalled ==
  [][/\ GetEIP1559Compatibility
          => /\ 1559 \in DOMAIN EIPS
                  => (RequestsIn(log') = 0 /\ UNCHANGED <<stateVars, eipCalls>>)
             /\ (1559 \notin DOMAIN EIPS /\ ethQuery)
                  => /\ log' = <<"getEIP1559Compatibility", "eth_getBlockByNumber">>
                     /\ eipCalls' # eipCalls
                     /\ UNCHANGED stateVars
     /\ \A i \in EipIds, response \in [result : Blocks] :
          CompleteEIP1559(i, response)
            => /\ 1559 \in DOMAIN EIPS'
               /\ EIPS'[1559] = (response.result = "post1559")
               /\ UNCHANGED <<networkId, networkStatus, providerConfig,
                              networkConfigurations>>]_vars

C25_Witness ==
  /\ log = <<"getEIP1559Compatibility", "commitEIP1559">>
  /\ 1559 \in DOMAIN EIPS /\ EIPS[1559] /\ notif = "stateChange"

\* C26: getEIP1559Compatibility changes no state when no provider has been
\* installed (it returns without sending a request) and when its request for
\* the latest block fails (the call throws and EIPS[1559], absent before that
\* step, is absent after it).
C26_NoChangeWithoutProviderOrOnFailure ==
  [][/\ (GetEIP1559Compatibility /\ ~ethQuery /\ 1559 \notin DOMAIN EIPS)
          => /\ log' = <<"getEIP1559Compatibility", "return:noProvider">>
             /\ RequestsIn(log') = 0 /\ notif' = "none"
             /\ UNCHANGED <<stateVars, eipCalls, probes, listeners, handles>>
     /\ \A i \in EipIds, response \in [error : RequestErrors] :
          CompleteEIP1559(i, response)
            => /\ log' = <<"getEIP1559Compatibility", "throw">>
               /\ notif' = "none"
               /\ UNCHANGED <<stateVars, handles>>
               /\ 1559 \notin DOMAIN EIPS => 1559 \notin DOMAIN EIPS']_vars

C26_Witness ==
  /\ log = <<"getEIP1559Compatibility", "throw">>
  /\ EIPS = NoEIPS /\ networkStatus = Unavailable /\ clients = 1

\* C27: lookupNetwork called before any provider has been installed returns
\* at once: it sends no request, subscribes no listener, changes no state
\* field and publishes nothing.
C27_LookupWithoutProviderIsNoOp ==
  [][(LookupNetwork /\ ~ethQuery)
       => /\ log' = <<"lookupNetwork", "return:noProvider">>
          /\ RequestsIn(log') = 0 /\ notif' = "none"
          /\ UNCHANGED <<stateVars, previousProviderConfig, probes, listeners,
                         handles, clients, ethQuery, pc>>]_vars

C27_Witness ==
  /\ log = <<"lookupNetwork", "return:noProvider">>
  /\ ~ethQuery /\ handles = NoHandles /\ InFlight = {} /\ listeners = {}
  /\ providerConfig.rpcUrl = Undef /\ providerConfig.type = RpcType

\* C28: starting from no network configurations, after any sequence of
\* upsertNetworkConfiguration and removeNetworkConfiguration calls no two
\* entries have the same rpcUrl up to letter case, and the id field of every
\* entry is the key it is stored under.
C28_OneEntryPerRpcUrl ==
  /\ \A k \in DOMAIN networkConfigurations : networkConfigurations[k].id = k
  /\ \A k1, k2 \in DOMAIN networkConfigurations :
       ToLowerCase(networkConfigurations[k1].rpcUrl)
         = ToLowerCase(networkConfigurations[k2].rpcUrl) => k1 = k2

C28_Witness ==
  /\ opCount = 3 /\ pc = "idle"
  /\ DOMAIN networkConfigurations = {"uuid1", "uuid2"}
  /\ networkConfigurations["uuid1"].rpcUrl = "HTTPS://MOCK-RPC-URL"
  /\ networkConfigurations["uuid2"].rpcUrl = "https://rpc-url.com"

\* the id that a call of upsertNetworkConfiguration which has passed its
\* checks returns: the constant it hands to setActiveNetwork and returns
UpsertReturns(id, setActive) ==
  IF setActive
  THEN pc' = "upsertSetActive" /\ cur'.newNetworkConfigurationId = id
  ELSE Last(log') = "return:" \o id

\* C29: upsertNetworkConfiguration given an rpcUrl that equals an existing
\* entry's rpcUrl up to letter case updates that entry in place: the number
\* of entries is unchanged, the existing id is returned, the fields of the
\* entry are the given ones and every other entry is unchanged.
C29_UpdateInPlace ==
  [][\A configuration \in UpsertConfigurations, options \in UpsertOptions :
       \A k \in DOMAIN networkConfigurations :
         ( /\ ToLowerCase(networkConfigurations[k].rpcUrl)
                = ToLowerCase(configuration.rpcUrl)
           /\ Validate(configuration, options) = Passed
           /\ UpsertNetworkConfiguration(configuration, options) )
         => /\ Cardinality(DOMAIN networkConfigurations')
                 = Cardinality(DOMAIN networkConfigurations)
            /\ k \in DOMAIN networkConfigurations'
            /\ UpsertReturns(k, options.setActive)
            /\ networkConfigurations'[k].id = k
            /\ \A f \in DOMAIN configuration :
                 networkConfigurations'[k][f] = configuration[f]
            /\ \A j \in DOMAIN networkConfigurations \ {k} :
                 /\ j \in DOMAIN networkConfigurations'
                 /\ networkConfigurations'[j] = networkConfigurations[j]]_vars

C29_Witness ==
  /\ log = <<"upsertNetworkConfiguration", "setNetworkConfigurations">>
  /\ pc = "upsertSetActive" /\ cur.newNetworkConfigurationId = "uuid1"
  /\ DOMAIN networkConfigurations = {"uuid1", "uuid2"}
  /\ networkConfigurations["uuid1"].rpcUrl = "HTTPS://MOCK-RPC-URL"
  /\ networkConfigurations["uuid1"].nickname = "new_rpc_nickname"
  /\ networkConfigurations["uuid1"].id = "uuid1"

\* the arguments the checks of upsertNetworkConfiguration are to refuse
FailsValidation(configuration, options) ==
  \/ configuration \in InvalidConfigurations
  \/ options.referrer = Undef
  \/ options.source = Undef

\* C30: upsertNetworkConfiguration given a chain id that is not strict hex or
\* not safe, no rpcUrl or one that is not a URL, no ticker, or no referrer or
\* source throws and leaves the network configurations, providerConfig, the
\* status and the proxies unchanged, tracks no event and makes no switch,
\* also when setActive is true.
C30_InvalidUpsertChangesNothing ==
  [][\A configuration \in UpsertConfigurations, options \in UpsertOptions :
       ( /\ FailsValidation(configuration, options)
         /\ UpsertNetworkConfiguration(configuration, options) )
       => /\ Last(log') = "throw"
          /\ CountIn(log', "trackMetaMetricsEvent") = 0
          /\ CountIn(log', "setNetworkConfigurations") = 0
          /\ notif' = "none" /\ pc' = "idle"
          /\ UNCHANGED <<stateVars, previousProviderConfig, handles, clients,
                         ethQuery, probes, listeners, history>>]_vars

C30_Witness ==
  /\ log = <<"upsertNetworkConfiguration", "tickerRequired", "throw">>
  /\ DOMAIN networkConfigurations = {"uuid1"}
  /\ networkConfigurations["uuid1"].rpcUrl = "https://mock-rpc-url"
  /\ networkConfigurations["uuid1"].ticker = "TEST"
  /\ providerConfig.id = "uuid1" /\ networkStatus = Available

\* the effects of a switch that ran to the end of #refreshNetwork
FullSwitchRun ==
  <<"setActiveNetwork", "setProviderConfig", "networkWillChange", "resetState",
    "createNetworkClient", "setTarget", "networkDidChange", "subscribe",
    "net_version", "eth_getBlockByNumber">>

\* C31: upsertNetworkConfiguration with setActive switches to the entry it
\* stored: providerConfig becomes that entry with type rpc and the returned
\* id, and the whole refresh sequence follows; without setActive it leaves
\* providerConfig, the status and the proxies unchanged.
C31_SetActiveSwitches ==
  [][/\ UpsertSetActive
          => LET id == cur.newNetworkConfigurationId IN
             /\ id \in DOMAIN networkConfigurations
             /\ providerConfig'.type = RpcType /\ providerConfig'.id = id
             /\ \A f \in {"rpcUrl", "chainId", "ticker", "nickname", "rpcPrefs"} :
                  providerConfig'[f] = networkConfigurations[id][f]
             /\ pc' = RefreshSteps[1]
     /\ (cur.newNetworkConfigurationId # Undef /\ pc # "idle" /\ pc' = "idle")
          => /\ log' = FullSwitchRun
             /\ providerConfig'.id = cur.newNetworkConfigurationId
     /\ \A configuration \in UpsertConfigurations, options \in UpsertOptions :
          (~options.setActive /\ UpsertNetworkConfiguration(configuration, options))
          => pc' = "idle" /\ UNCHANGED <<providerConfig, networkStatus, handles>>]_vars

C31_Witness ==
  /\ pc = "idle" /\ log = FullSwitchRun /\ opCount = 1
  /\ providerConfig.type = RpcType /\ providerConfig.id = "uuid1"
  /\ providerConfig.rpcUrl = "HTTPS://MOCK-RPC-URL"
  /\ handles.providerTarget = 1 /\ InFlight # {}

\* C32: removeNetworkConfiguration throws when the id is not stored and leaves
\* the network configurations as they are; otherwise it deletes that entry
\* and nothing else: providerConfig, the previous configuration, the status
\* and the proxies are unchanged, also when providerConfig.id is the removed
\* id, and no refresh sequence starts.
C32_RemoveDeletesOnlyTheEntry ==
  [][\A id \in RemoveIds :
       RemoveNetworkConfiguration(id)
       => /\ IF id \notin DOMAIN networkConfigurations
             THEN Last(log') = "throw" /\ UNCHANGED networkConfigurations
             ELSE /\ DOMAIN networkConfigurations' = DOMAIN networkConfigurations \ {id}
                  /\ \A k \in DOMAIN networkConfigurations' :
                       networkConfigurations'[k] = networkConfigurations[k]
          /\ pc' = "idle" /\ CountIn(log', "networkWillChange") = 0
          /\ UNCHANGED <<providerConfig, previousProviderConfig, networkId,
                         networkStatus, EIPS, handles, clients, ethQuery, probes,
                         listeners, history>>]_vars

C32_Witness ==
  /\ log = <<"removeNetworkConfiguration", "setNetworkConfigurations">>
  /\ providerConfig.id = "uuid1" /\ handles.providerTarget = 1
  /\ DOMAIN networkConfigurations = {"uuid2"}

\* the effects of a resetConnection that ran to the end of #refreshNetwork
FullResetRun ==
  <<"resetConnection", "networkWillChange", "resetState", "createNetworkClient",
    "setTarget", "networkDidChange", "subscribe", "net_version",
    "eth_getBlockByNumber">>

ResetConnectionStep == ResetConnection \/ (InRefresh /\ cur.op = "resetConnection")

\* C33: resetConnection runs the whole refresh sequence (networkWillChange,
\* state reset, a new client behind the same proxies, networkDidChange, the
\* probe) and leaves providerConfig and the previous configuration as they
\* were, so a rollback goes where it would have gone before.
C33_ResetConnectionRefreshes ==
  [][ResetConnectionStep
       => /\ UNCHANGED <<providerConfig, previousProviderConfig, networkConfigurations>>
          /\ RollbackPrevious' = RollbackPrevious
          /\ handles.providerProxy # 0
               => /\ handles'.providerProxy = handles.providerProxy
                  /\ handles'.blockTrackerProxy = handles.blockTrackerProxy
          /\ (pc # "idle" /\ pc' = "idle")
               => /\ log' = FullResetRun
                  /\ handles'.providerTarget = clients' /\ clients' = clients
                  /\ handles'.blockTrackerTarget = clients']_vars

\* C34: from the default state, in every state networkId is set exactly when
\* networkStatus is Available, and an Available network has EIPS[1559]
\* defined: whatever the interleaving of probes, switches and
\* getEIP1559Compatibility calls, no state shows a part of a probe's result.
C34_ResultVisibleWhole ==
  /\ (networkId # NullId) <=> (networkStatus = Available)
  /\ networkStatus = Available => 1559 \in DOMAIN EIPS

C34_Witness ==
  /\ log = <<"getEIP1559Compatibility", "commitEIP1559">>
  /\ networkStatus = Available /\ networkId # NullId
  /\ EIPS[1559] = FALSE /\ opCount = 3 /\ handles.providerTarget = 2

\* C35: a getEIP1559Compatibility call whose request went to the provider of
\* one network does not write EIPS[1559] once a switch to another network has
\* replaced the provider.
C35_StaleCapabilityNeverWritten ==
  [][\A i \in EipIds, response \in GetBlockResponses :
       ( /\ CompleteEIP1559(i, response)
         /\ eipCalls[i].providerReplaced
         /\ eipCalls[i].network # providerConfig.chainId )
       => UNCHANGED EIPS]_vars

\* C36: a lookupNetwork probe commits only while providerConfig is what it was
\* when the probe started; a probe in flight when a switch changed
\* providerConfig and then failed to construct its client commits nothing of
\* the old network and publishes nothing decided by the old network's kind.
C36_CommitOnlyForStartingConfig ==
  [][\A p \in ProbeIds :
       (probes[p] # Free /\ probes'[p] = Free /\ probes[p].startedWith # providerConfig)
         => (UNCHANGED stateVars /\ notif' = "none" /\ pc' = "idle")]_vars

\* the reset of #refreshNetwork has just written Unknown
ResetWritten == pc = After(RefreshSteps, "resetState")

\* a probe has just committed its result
ProbeCommitted == pc = "lookupPublish"

\* C37: when every request completes and no further operation is invoked,
\* eventually no probe is in flight, and the Unknown written by the reset of
\* a refresh sequence does not stay: a probe commits its own result after it.
C37_ProbesSettle ==
  /\ <>[](InFlight = {})
  /\ ResetWritten ~> ProbeCommitted

\* C38 as stated: in every state as many probe listeners are subscribed as
\* probes are awaiting their requests.
C38_ListenerPerAwaitingProbe ==
  Cardinality(listeners) = Cardinality(InFlight)

\* C38: every lookupNetwork past the no-provider check has its listener
\* removed exactly once before it returns, by the listener itself when
\* networkDidChange is published or by the probe before its commit, and never
\* unsubscribes a removed listener; in every state the subscribed listeners
\* are those of the awaiting probes that have seen no networkDidChange.
C38_ListenerRemovedOnce ==
  /\ [](listeners = {p \in InFlight : ~probes[p].networkChanged})
  /\ [][\A p \in ProbeIds :
          /\ (probes[p] # Free /\ probes'[p] = Free)
               => /\ p \notin listeners'
                  /\ CountIn(log', "unsubscribe") = IF p \in listeners THEN 1 ELSE 0
          /\ (p \in listeners /\ p \notin listeners')
               => \/ pc = "didChange" /\ probes'[p] # Free /\ probes'[p].networkChanged
                  \/ probes'[p] = Free /\ pc' = "lookupPublish"]_vars

C38_Witness ==
  /\ pc = "idle" /\ Cardinality(InFlight) = 2 /\ Cardinality(listeners) = 1
  /\ \E p \in InFlight : probes[p].networkChanged /\ p \notin listeners

\* C39: networkDidChange is never published more often than networkWillChange;
\* each networkDidChange follows the networkWillChange of its own refresh
\* sequence with exactly one replacement of the proxies' targets between
\* them; a networkWillChange stays without its networkDidChange exactly when
\* the construction of the client failed in that sequence.
C39_WillDidPairing ==
  IsRefreshRun =>
    /\ Count("networkDidChange") <= Count("networkWillChange")
    /\ Count("networkWillChange") <= 1
    /\ Has("networkDidChange")
         => /\ Count("setTarget") = 1
            /\ Pos("networkWillChange") < Pos("setTarget")
            /\ Pos("setTarget") < Pos("networkDidChange")
    /\ (pc = "idle" /\ Has("networkWillChange"))
         => (~Has("networkDidChange")
               <=> (Last(log) = "throw" /\ ~Has("createNetworkClient")))

C39_Witness ==
  /\ IsRefreshRun /\ pc = "idle" /\ Last(log) = "throw"
  /\ Has("networkWillChange") /\ ~Has("networkDidChange")
  /\ handles.providerTarget = 1 /\ opCount = 3

====
